---- MODULE Spec2Model ----
(***************************************************************************)
(* Cython/CodeWriter.py: serialization of a Cython code tree to lines of   *)
(* text by the tree visitors DeclarationWriter, CodeWriter and PxdWriter.  *)
(*                                                                         *)
(* Text is a sequence of tokens (strings); concatenating Python strings is *)
(* concatenating token sequences, and the empty string is <<>>.  A visit_* *)
(* method is an operator from the node to the sequence of statements it    *)
(* executes (its branches depend on the node alone); the writer executes   *)
(* them one at a time with an explicit call stack, so that the state       *)
(* between two statements of a method is a state of the model.             *)
(***************************************************************************)
EXTENDS Integers, Sequences, FiniteSets, TLC

VARIABLES
    writer,          \* the class of the writer instance
    tree,            \* the argument of write(tree)
    pc,              \* "init" (constructed), "running", "done" (write returned), "error" (exception propagated)
    lines,           \* self.result.lines
    s,               \* self.result.s
    numindents,      \* self.numindents
    tempnames,       \* self.tempnames, a set of <<handle, name>> pairs, one per key
    tempblockindex,  \* self.tempblockindex
    stack,           \* the Python call stack of visit / comma_separated_list frames
    error,           \* the exception that left write(), or None
    history,         \* history: the text of every LinesResult.put call and NL for every newline call, in order
    allocs           \* history: one record per visit_TempsBlockNode call, in order

vars == <<writer, tree, pc, lines, s, numindents, tempnames, tempblockindex,
          stack, error, history, allocs>>

----------------------------------------------------------------------------
(* Python values *)

None == [kind |-> "None"]
NoStr == "<None>"
Truthy(str) == str # NoStr /\ str # ""

RECURSIVE Flatten(_)
Flatten(ss) == IF ss = <<>> THEN <<>> ELSE Head(ss) \o Flatten(Tail(ss))

RECURSIVE Rep(_, _)
Rep(text, n) == IF n <= 0 THEN <<>> ELSE text \o Rep(text, n - 1)

RECURSIVE Join(_, _)
Join(sep, strs) ==
    IF strs = <<>> THEN <<>>
    ELSE IF Len(strs) = 1 THEN <<strs[1]>>
    ELSE <<strs[1]>> \o sep \o Join(sep, Tail(strs))

Digit(d) == CASE d = 0 -> "0" [] d = 1 -> "1" [] d = 2 -> "2" [] d = 3 -> "3"
              [] d = 4 -> "4" [] d = 5 -> "5" [] d = 6 -> "6" [] d = 7 -> "7"
              [] d = 8 -> "8" [] d = 9 -> "9"

RECURSIVE Dec(_)
Dec(n) == IF n < 10 THEN <<Digit(n)>> ELSE Dec(n \div 10) \o <<Digit(n % 10)>>

Repr(value) == <<"'", value, "'">>

----------------------------------------------------------------------------
(* The node class hierarchy the visitor dispatches on *)

Parent(kind) ==
    CASE kind \in {"ModuleNode", "StatListNode", "StatNode", "CDeclaratorNode",
                   "CArgDeclNode", "CBaseTypeNode", "DecoratorNode", "IfClauseNode",
                   "ExceptClauseNode", "ExprNode", "CascadedCmpNode",
                   "TempsBlockNode"} -> "Node"
      [] kind \in {"CNameDeclaratorNode", "CPtrDeclaratorNode", "CReferenceDeclaratorNode",
                   "CArrayDeclaratorNode", "CFuncDeclaratorNode"} -> "CDeclaratorNode"
      [] kind \in {"CSimpleBaseTypeNode", "CComplexBaseTypeNode", "CNestedBaseTypeNode",
                   "TemplatedTypeNode"} -> "CBaseTypeNode"
      [] kind = "CppClassNode" -> "CStructOrUnionDefNode"
      [] kind \in {"CFuncDefNode", "DefNode"} -> "FuncDefNode"
      [] kind \in {"PyClassDefNode", "CClassDefNode"} -> "ClassDefNode"
      [] kind \in {"SingleAssignmentNode", "CascadedAssignmentNode",
                   "InPlaceAssignmentNode"} -> "AssignmentNode"
      [] kind \in {"AtomicExprNode", "ImportNode", "CallNode", "AsTupleNode",
                   "AttributeNode", "IndexNode", "SequenceNode", "NotNode", "BinopNode",
                   "BoolBinopNode", "PrimaryCmpNode", "CoercionNode"} -> "ExprNode"
      [] kind \in {"PyConstNode", "ConstNode", "LongNode", "NameNode",
                   "TempRefNode"} -> "AtomicExprNode"
      [] kind \in {"NoneNode", "UnicodeNode", "StringNode"} -> "PyConstNode"
      [] kind \in {"BoolNode", "NullNode", "IntNode", "FloatNode", "BytesNode"} -> "ConstNode"
      [] kind \in {"SimpleCallNode", "GeneralCallNode"} -> "CallNode"
      [] kind \in {"TupleNode", "ListNode"} -> "SequenceNode"
      [] kind = "NumBinopNode" -> "BinopNode"
      [] kind = "AddNode" -> "NumBinopNode"
      [] kind \in {"CoerceToBooleanNode", "CoerceToTempNode"} -> "CoercionNode"
      [] OTHER -> "StatNode"

RECURSIVE MRO(_)
MRO(kind) == IF kind = "Node" THEN <<"Node">> ELSE <<kind>> \o MRO(Parent(kind))

isinstance(node, classes) == \E i \in DOMAIN MRO(node.kind) : MRO(node.kind)[i] \in classes

----------------------------------------------------------------------------
(* The statements of a method body *)

do_put(text)             == [op |-> "put", text |-> text]
do_startline(text)       == [op |-> "startline", text |-> text]
do_putline(text)         == [op |-> "putline", text |-> text]
do_endline(text)         == [op |-> "endline", text |-> text]
do_line(text)            == [op |-> "line", text |-> text]
do_indent                == [op |-> "indent"]
do_dedent                == [op |-> "dedent"]
do_visit(node)           == [op |-> "visit", node |-> node]
do_list(items, rhs)      == [op |-> "comma_separated_list", items |-> items, output_rhs |-> rhs]
do_raise(type)           == [op |-> "raise", type |-> type]
do_temps(temps)          == [op |-> "temps", temps |-> temps]
do_tempname(handle)      == [op |-> "tempname", handle |-> handle]

When(cond, code) == IF cond THEN code ELSE <<>>

\* the concatenation of Body(item) over the items, in order
ForEach(items, Body(_)) == Flatten([i \in 1..Len(items) |-> Body(items[i])])

visitchildren(children) == ForEach(children, LAMBDA c : <<do_visit(c)>>)

----------------------------------------------------------------------------
(* class LinesResult *)

NL == <<"\n">>

LinesResult_put(r, text) == [r EXCEPT !.s = r.s \o text]

\* a newline() that does not commit an empty in-progress line
LinesResult_newline_dropsempty(r) ==
    IF r.s = <<>> THEN r ELSE [lines |-> Append(r.lines, r.s), s |-> <<>>]

LinesResult_newline(r) == [lines |-> Append(r.lines, r.s), s |-> <<>>]

LinesResult_putline(r, text) == LinesResult_newline(LinesResult_put(r, text))

----------------------------------------------------------------------------
(* class DeclarationWriter *)

indent_string == "    "

Indentation(n) == [i \in 1..n |-> indent_string]

\* a comma_separated_list that puts the separator after every item, the last too
comma_separated_list_trailing(items, output_rhs) ==
    ForEach(items,
            LAMBDA item :
                <<do_visit(item)>>
                \o When(output_rhs /\ item.default # None,
                        <<do_put(<<" = ">>), do_visit(item.default)>>)
                \o <<do_put(<<", ">>)>>)

comma_separated_list(items, output_rhs) ==
    When(Len(items) > 0,
         ForEach(SubSeq(items, 1, Len(items) - 1),
                 LAMBDA item :
                     <<do_visit(item)>>
                     \o When(output_rhs /\ item.default # None,
                             <<do_put(<<" = ">>), do_visit(item.default)>>)
                     \o <<do_put(<<", ">>)>>)
         \o <<do_visit(items[Len(items)])>>)

\* a visit_Node that skips the node instead of raising
visit_Node_skips(node) == <<>>

visit_Node(node) == <<do_raise("AssertionError")>>

visit_ModuleNode(node) == visitchildren(<<node.body>>)

visit_StatListNode(node) ==
    IF Len(node.stats) = 0
    THEN <<do_line(<<"pass">>)>>
    ELSE visitchildren(node.stats)

visit_CDefExternNode(node) ==
    <<do_putline(<<"cdef extern from ">>
                 \o (IF node.include_file = NoStr THEN <<"*">>
                     ELSE <<"\"", node.include_file, "\"">>)
                 \o <<":">>),
      do_indent,
      do_visit(node.body),
      do_dedent>>

visit_CPtrDeclaratorNode(node) == <<do_put(<<"*">>), do_visit(node.base)>>

visit_CReferenceDeclaratorNode(node) == <<do_put(<<"&">>), do_visit(node.base)>>

visit_CArrayDeclaratorNode(node) ==
    <<do_visit(node.base), do_put(<<"[">>)>>
    \o When(node.dimension # None, <<do_visit(node.dimension)>>)
    \o <<do_put(<<"]">>)>>

visit_CFuncDeclaratorNode(node) ==
    <<do_visit(node.base),
      do_put(<<"(">>),
      do_list(node.args, FALSE),
      do_endline(<<"):">>)>>

visit_CNameDeclaratorNode(node) == <<do_put(<<node.name>>)>>

visit_CSimpleBaseTypeNode(node) ==
    When(node.is_basic_c_type,
         <<do_put(<< <<"unsigned ">>, <<>>, <<"signed ">> >>[node.signed + 1])>>
         \o (IF node.longness < 0
             THEN <<do_put(Rep(<<"short ">>, 0 - node.longness))>>
             ELSE When(node.longness > 0, <<do_put(Rep(<<"long ">>, node.longness))>>)))
    \o <<do_put(<<node.name>>)>>

visit_CComplexBaseTypeNode(node) ==
    <<do_put(<<"(">>), do_visit(node.base_type), do_visit(node.declarator), do_put(<<")">>)>>

visit_CNestedBaseTypeNode(node) ==
    <<do_visit(node.base_type), do_put(<<".">>), do_put(<<node.name>>)>>

visit_TemplatedTypeNode(node) ==
    <<do_visit(node.base_type_node),
      do_put(<<"[">>),
      do_list(node.positional_args \o node.keyword_args, FALSE),
      do_put(<<"]">>)>>

visit_CVarDefNode(node) ==
    <<do_startline(<<"cdef ">>),
      do_visit(node.base_type),
      do_put(<<" ">>),
      do_list(node.declarators, TRUE),
      do_endline(<<>>)>>

\* a visit_container_node that writes the empty body before indenting
visit_container_node_flat(node, decl, extras, attributes) ==
    <<do_startline(decl)>>
    \o When(Truthy(node.name),
            <<do_put(<<" ">>), do_put(<<node.name>>)>>
            \o When(node.cname # NoStr, <<do_put(<<" \"", node.cname, "\"">>)>>))
    \o When(extras # <<>>, <<do_put(extras)>>)
    \o <<do_endline(<<":">>)>>
    \o (IF attributes = <<>>
        THEN <<do_putline(<<"pass">>), do_indent>>
        ELSE <<do_indent>> \o ForEach(attributes, LAMBDA attribute : <<do_visit(attribute)>>))
    \o <<do_dedent>>

visit_container_node(node, decl, extras, attributes) ==
    <<do_startline(decl)>>
    \o When(Truthy(node.name),
            <<do_put(<<" ">>), do_put(<<node.name>>)>>
            \o When(node.cname # NoStr, <<do_put(<<" \"", node.cname, "\"">>)>>))
    \o When(extras # <<>>, <<do_put(extras)>>)
    \o <<do_endline(<<":">>), do_indent>>
    \o (IF attributes = <<>>
        THEN <<do_putline(<<"pass">>)>>
        ELSE ForEach(attributes, LAMBDA attribute : <<do_visit(attribute)>>))
    \o <<do_dedent>>

visit_CStructOrUnionDefNode(node) ==
    visit_container_node(node,
        (IF node.typedef_flag THEN <<"ctypedef ">> ELSE <<"cdef ">>)
        \o When(node.visibility = "public", <<"public ">>)
        \o When(node.packed, <<"packed ">>)
        \o <<node.struct_kind>>,
        <<>>, node.attributes)

visit_CppClassNode(node) ==
    visit_container_node(node, <<"cdef cppclass">>,
        When(node.templates # <<>>, <<"[">> \o Join(<<", ">>, node.templates) \o <<"]">>)
        \o When(node.base_classes # <<>>,
                <<"(">> \o Join(<<", ">>, node.base_classes) \o <<")">>),
        node.attributes)

visit_CEnumDefNode(node) == visit_container_node(node, <<"cdef enum">>, <<>>, node.items)

visit_CEnumDefItemNode(node) ==
    <<do_startline(<<node.name>>)>>
    \o When(Truthy(node.cname), <<do_put(<<" \"", node.cname, "\"">>)>>)
    \o When(node.value # None, <<do_put(<<" = ">>), do_visit(node.value)>>)
    \o <<do_endline(<<>>)>>

visit_CClassDefNode(node) ==
    IF Truthy(node.module_name)
    THEN <<do_raise("AssertionError")>>
    ELSE ForEach(node.decorators, LAMBDA decorator : <<do_visit(decorator)>>)
         \o <<do_startline(<<"cdef class ">>), do_put(<<node.class_name>>)>>
         \o When(Truthy(node.base_class_name),
                 <<do_put(<<"(">>)>>
                 \o When(Truthy(node.base_class_module),
                         <<do_put(<<node.base_class_module>>), do_put(<<".">>)>>)
                 \o <<do_put(<<node.base_class_name>>), do_put(<<")">>)>>)
         \o <<do_endline(<<":">>), do_indent, do_visit(node.body), do_dedent>>

visit_PyClassDefNode(node) ==
    <<do_startline(<<"class ">>), do_put(<<node.name>>)>>
    \o When(node.bases # None, <<do_visit(node.bases)>>)
    \o <<do_endline(<<":">>), do_indent, do_visit(node.body), do_dedent>>

visit_CTypeDefNode(node) ==
    <<do_startline(<<"ctypedef ">>),
      do_visit(node.base_type),
      do_put(<<" ">>),
      do_visit(node.declarator),
      do_endline(<<>>)>>

visit_FuncDefNode(node) ==
    <<do_startline(<<"def ",
                     IF node.entry_name # NoStr THEN node.entry_name ELSE node.name,
                     "(">>),
      do_list(node.args, FALSE)>>
    \o When(Truthy(node.star_arg),
            When(Len(node.args) > 0, <<do_put(<<", ">>)>>)
            \o <<do_put(<<"*">>), do_put(<<node.star_arg>>)>>)
    \o When(Truthy(node.starstar_arg),
            When(Len(node.args) + (IF Truthy(node.star_arg) THEN 1 ELSE 0) > 0,
                 <<do_put(<<", ">>)>>)
            \o <<do_put(<<"**">>), do_put(<<node.starstar_arg>>)>>)
    \o <<do_endline(<<"):">>), do_indent, do_visit(node.body), do_dedent>>

visit_CArgDeclNode(node) ==
    IF node.base_type.is_self_arg
    THEN <<do_put(<<"self">>)>>
    ELSE When(node.base_type.name # NoStr, <<do_visit(node.base_type), do_put(<<" ">>)>>)
         \o <<do_visit(node.declarator)>>
         \o When(node.default # None, <<do_put(<<" = ">>), do_visit(node.default)>>)

visit_CImportStatNode(node) ==
    <<do_startline(<<"cimport ">>), do_put(<<node.module_name>>)>>
    \o When(Truthy(node.as_name), <<do_put(<<" as ">>), do_put(<<node.as_name>>)>>)
    \o <<do_endline(<<>>)>>

visit_FromCImportStatNode(node) ==
    <<do_startline(<<"from ">>), do_put(<<node.module_name>>), do_put(<<" cimport ">>)>>
    \o Flatten([i \in 1..Len(node.imported_names) |->
           LET imp == node.imported_names[i] IN
           IF imp.kind # NoStr
           THEN <<do_raise("AssertionError")>>
           ELSE When(i # 1, <<do_put(<<", ">>)>>)
                \o <<do_put(<<imp.name>>)>>
                \o When(Truthy(imp.as_name),
                        <<do_put(<<" as ">>), do_put(<<imp.as_name>>)>>)])
    \o <<do_endline(<<>>)>>

visit_NameNode(node) == <<do_put(<<node.name>>)>>

visit_IntNode(node) == <<do_put(<<node.value>>)>>

visit_NoneNode(node) == <<do_put(<<"None">>)>>

visit_NotNode(node) == <<do_put(<<"(not ">>), do_visit(node.operand), do_put(<<")">>)>>

visit_DecoratorNode(node) ==
    <<do_startline(<<"@">>), do_visit(node.decorator), do_endline(<<>>)>>

visit_BinopNode(node) ==
    <<do_visit(node.operand1), do_put(<<" ", node.operator, " ">>), do_visit(node.operand2)>>

visit_AttributeNode(node) ==
    (IF isinstance(node.obj, {"AtomicExprNode", "AttributeNode"})
     THEN <<do_visit(node.obj)>>
     ELSE <<do_put(<<"(">>), do_visit(node.obj), do_put(<<")">>)>>)
    \o <<do_put(<<".", node.attribute>>)>>

visit_BoolNode(node) == <<do_put(<<IF node.value THEN "True" ELSE "False">>)>>

visit_StringNode(node) == <<do_put(Repr(node.value))>>

visit_PassStatNode(node) == <<do_startline(<<"pass">>), do_endline(<<>>)>>

visit_ListNode(node) ==
    <<do_put(<<"[">>)>>
    \o ForEach(node.args, LAMBDA arg : <<do_visit(arg), do_put(<<",">>)>>)
    \o <<do_put(<<"]">>)>>

visit_TupleNode(node) ==
    <<do_put(<<"(">>)>>
    \o ForEach(node.args, LAMBDA arg : <<do_visit(arg), do_put(<<",">>)>>)
    \o <<do_put(<<")">>)>>

visit_UnicodeNode(node) == <<do_put(Repr(node.value))>>

visit_AssertStatNode(node) ==
    <<do_startline(<<"assert ">>), do_visit(node.cond)>>
    \o When(node.value # None, <<do_put(<<", ">>), do_visit(node.value)>>)
    \o <<do_endline(<<>>)>>

----------------------------------------------------------------------------
(* class CodeWriter(DeclarationWriter) *)

visit_SingleAssignmentNode(node) ==
    <<do_startline(<<>>), do_visit(node.lhs), do_put(<<" = ">>), do_visit(node.rhs),
      do_endline(<<>>)>>

visit_CascadedAssignmentNode(node) ==
    <<do_startline(<<>>)>>
    \o ForEach(node.lhs_list, LAMBDA lhs : <<do_visit(lhs), do_put(<<" = ">>)>>)
    \o <<do_visit(node.rhs), do_endline(<<>>)>>

visit_PrintStatNode(node) ==
    <<do_startline(<<"print ">>), do_list(node.arg_tuple.args, FALSE)>>
    \o When(~node.append_newline, <<do_put(<<",">>)>>)
    \o <<do_endline(<<>>)>>

visit_ForInStatNode(node) ==
    <<do_startline(<<"for ">>)>>
    \o (IF "args" \in DOMAIN node.target
        THEN Flatten([i \in 1..Len(node.target.args) |->
                 When(i # 1, <<do_put(<<", ">>)>>) \o <<do_visit(node.target.args[i])>>])
        ELSE <<do_visit(node.target)>>)
    \o <<do_put(<<" in ">>), do_visit(node.sequence), do_endline(<<":">>),
         do_indent, do_visit(node.body), do_dedent>>
    \o When(node.else_clause # None,
            <<do_line(<<"else:">>), do_indent, do_visit(node.else_clause), do_dedent>>)

visit_IfStatNode(node) ==
    <<do_startline(<<"if ">>), do_visit(node.if_clauses[1].condition), do_endline(<<":">>),
      do_indent, do_visit(node.if_clauses[1].body), do_dedent>>
    \o ForEach(Tail(node.if_clauses),
               LAMBDA clause :
                   <<do_startline(<<"elif ">>), do_visit(clause.condition),
                     do_endline(<<":">>),
                     do_indent, do_visit(clause.body), do_dedent>>)
    \o When(node.else_clause # None,
            <<do_line(<<"else:">>), do_indent, do_visit(node.else_clause), do_dedent>>)

visit_SequenceNode(node) == <<do_list(node.args, FALSE)>>

visit_SimpleCallNode(node) ==
    (IF isinstance(node.function,
                   {"AtomicExprNode", "SimpleCallNode", "NameNode", "AttributeNode"})
     THEN <<do_visit(node.function)>>
     ELSE <<do_put(<<"(">>), do_visit(node.function), do_put(<<")">>)>>)
    \o <<do_put(<<"(">>)>>
    \o (LET args == IF node.args # <<>> THEN node.args
                    ELSE IF node.arg_tuple # None THEN node.arg_tuple.args
                    ELSE <<>>
        IN  Flatten([i \in 1..Len(args) |->
                When(i # 1, <<do_put(<<",">>)>>) \o <<do_visit(args[i])>>]))
    \o <<do_put(<<")">>)>>

visit_GeneralCallNode(node) ==
    <<do_visit(node.function), do_put(<<"(">>)>>
    \o (LET posarg == node.positional_args IN
        IF posarg.kind = "AsTupleNode"
        THEN <<do_visit(posarg.arg)>>
        ELSE <<do_list(posarg.items, FALSE)>>)
    \o When(node.keyword_args # None \/ node.starstar_arg # None,
            <<do_raise("Exception")>>)
    \o <<do_put(<<")">>)>>

visit_ExprStatNode(node) ==
    <<do_startline(<<>>), do_visit(node.expr), do_endline(<<>>)>>

visit_InPlaceAssignmentNode(node) ==
    <<do_startline(<<>>), do_visit(node.lhs), do_put(<<" ", node.operator, "= ">>),
      do_visit(node.rhs), do_endline(<<>>)>>

visit_WithStatNode(node) ==
    <<do_startline(<<>>), do_put(<<"with ">>), do_visit(node.manager)>>
    \o When(node.target # None, <<do_put(<<" as ">>), do_visit(node.target)>>)
    \o <<do_endline(<<":">>), do_indent, do_visit(node.body), do_dedent>>

visit_TryFinallyStatNode(node) ==
    <<do_line(<<"try:">>), do_indent, do_visit(node.body), do_dedent,
      do_line(<<"finally:">>), do_indent, do_visit(node.finally_clause), do_dedent>>

visit_TryExceptStatNode(node) ==
    <<do_line(<<"try:">>), do_indent, do_visit(node.body), do_dedent>>
    \o ForEach(node.except_clauses, LAMBDA x : <<do_visit(x)>>)
    \o When(node.else_clause # None, <<do_visit(node.else_clause)>>)

visit_ExceptClauseNode(node) ==
    <<do_startline(<<"except">>)>>
    \o When(node.pattern # None, <<do_put(<<" ">>), do_visit(node.pattern)>>)
    \o When(node.target # None, <<do_put(<<", ">>), do_visit(node.target)>>)
    \o <<do_endline(<<":">>), do_indent, do_visit(node.body), do_dedent>>

visit_ReturnStatNode(node) ==
    <<do_startline(<<"return ">>)>>
    \o When(node.value # None, <<do_visit(node.value)>>)
    \o <<do_endline(<<>>)>>

visit_ReraiseStatNode(node) == <<do_line(<<"raise">>)>>

visit_ImportNode(node) == <<do_line(<<"import ", node.module_name>>)>>

visit_TempsBlockNode(node) == <<do_temps(node.temps), do_visit(node.body)>>

visit_TempRefNode(node) == <<do_tempname(node.handle)>>

visit_BytesNode(node) == <<do_put(Repr(node.value))>>

visit_ContinueStatNode(node) == <<do_line(<<"continue">>)>>

\* a visit_WhileStatNode that forgets the dedent after its else clause
visit_WhileStatNode_unbalanced(node) ==
    <<do_startline(<<"while ">>), do_visit(node.condition), do_endline(<<":">>),
      do_indent, do_visit(node.body), do_dedent>>
    \o When(node.else_clause # None,
            <<do_line(<<"else:">>), do_indent, do_visit(node.else_clause)>>)

visit_WhileStatNode(node) ==
    <<do_startline(<<"while ">>), do_visit(node.condition), do_endline(<<":">>),
      do_indent, do_visit(node.body), do_dedent>>
    \o When(node.else_clause # None,
            <<do_line(<<"else:">>), do_indent, do_visit(node.else_clause), do_dedent>>)

visit_BreakStatNode(node) == <<do_line(<<"break">>)>>

visit_CoerceToBooleanNode(node) == <<do_visit(node.arg)>>

visit_FloatNode(node) == <<do_put(<<node.value>>)>>

visit_CoerceToTempNode(node) == <<do_visit(node.arg)>>

visit_FromImportStatNode(node) ==
    <<do_startline(<<"from ">>), do_put(<<node.module_name>>), do_put(<<" import ">>),
      do_endline(Join(<<", ">>, node.names))>>

RECURSIVE CascadeLinks(_, _)
\* the loop "while node.cascade" of visit_PrimaryCmpNode, from the link c on
CascadeLinks(operator, c) ==
    IF c = None THEN <<>>
    ELSE <<do_put(<<operator>>), do_visit(c.operand2)>> \o CascadeLinks(operator, c.cascade)

visit_PrimaryCmpNode(node) ==
    <<do_visit(node.operand1), do_put(<<" ">>), do_put(<<node.operator>>), do_put(<<" ">>),
      do_visit(node.operand2)>>
    \o CascadeLinks(node.operator, node.cascade)

visit_BoolBinopNode(node) ==
    <<do_visit(node.operand1), do_put(<<" ">>), do_put(<<node.operator>>), do_put(<<" ">>),
      do_visit(node.operand2)>>

visit_IndexNode(node) ==
    <<do_visit(node.base), do_put(<<"[">>), do_visit(node.index), do_put(<<"]">>)>>

visit_NullNode(node) == <<do_put(<<"None">>)>>

visit_RaiseStatNode(node) ==
    <<do_startline(<<"raise ">>)>>
    \o visitchildren(SelectSeq(<<node.exc_type, node.exc_value, node.exc_tb>>,
                               LAMBDA c : c # None))
    \o <<do_endline(<<>>)>>

CodeWriter_visit_CFuncDefNode(node) ==
    <<do_startline(<<"def ">>), do_visit(node.declarator),
      do_indent, do_visit(node.body), do_dedent, do_endline(<<>>)>>

----------------------------------------------------------------------------
(* class PxdWriter(DeclarationWriter) *)

\* a PxdWriter.visit_CFuncDefNode without the test for "inline"
PxdWriter_visit_CFuncDefNode_noskip(node) ==
    <<do_startline(IF node.overridable THEN <<"cpdef ">> ELSE <<"cdef ">>)>>
    \o When(node.visibility # "private",
            <<do_put(<<node.visibility>>), do_put(<<" ">>)>>)
    \o When(node.api, <<do_put(<<"api ">>)>>)
    \o <<do_visit(node.declarator)>>

PxdWriter_visit_CFuncDefNode(node) ==
    IF "inline" \in {node.modifiers[i] : i \in DOMAIN node.modifiers}
    THEN <<>>
    ELSE <<do_startline(IF node.overridable THEN <<"cpdef ">> ELSE <<"cdef ">>)>>
         \o When(node.visibility # "private",
                 <<do_put(<<node.visibility>>), do_put(<<" ">>)>>)
         \o When(node.api, <<do_put(<<"api ">>)>>)
         \o <<do_visit(node.declarator)>>

PxdWriter_visit_StatNode(node) == <<>>

----------------------------------------------------------------------------
(* Dispatch: TreeVisitor.visit picks visit_<Class> for the first class of the
   node's method resolution order for which the writer has such a method *)

DeclarationWriterMethods ==
    {"Node", "ModuleNode", "StatListNode", "CDefExternNode", "CPtrDeclaratorNode",
     "CReferenceDeclaratorNode", "CArrayDeclaratorNode", "CFuncDeclaratorNode",
     "CNameDeclaratorNode", "CSimpleBaseTypeNode", "CComplexBaseTypeNode",
     "CNestedBaseTypeNode", "TemplatedTypeNode", "CVarDefNode", "CStructOrUnionDefNode",
     "CppClassNode", "CEnumDefNode", "CEnumDefItemNode", "CClassDefNode", "PyClassDefNode",
     "CTypeDefNode", "FuncDefNode", "CArgDeclNode", "CImportStatNode",
     "FromCImportStatNode", "NameNode", "IntNode", "NoneNode", "NotNode", "DecoratorNode",
     "BinopNode", "AttributeNode", "BoolNode", "StringNode", "PassStatNode", "ListNode",
     "TupleNode", "UnicodeNode", "AssertStatNode"}

CodeWriterMethods ==
    {"SingleAssignmentNode", "CascadedAssignmentNode", "PrintStatNode", "ForInStatNode",
     "IfStatNode", "SequenceNode", "SimpleCallNode", "GeneralCallNode", "ExprStatNode",
     "InPlaceAssignmentNode", "WithStatNode", "TryFinallyStatNode", "TryExceptStatNode",
     "ExceptClauseNode", "ReturnStatNode", "ReraiseStatNode", "ImportNode",
     "TempsBlockNode", "TempRefNode", "BytesNode", "ContinueStatNode", "WhileStatNode",
     "BreakStatNode", "CoerceToBooleanNode", "FloatNode", "CoerceToTempNode",
     "FromImportStatNode", "PrimaryCmpNode", "BoolBinopNode", "IndexNode", "NullNode",
     "RaiseStatNode", "CFuncDefNode"}

PxdWriterMethods == {"CFuncDefNode", "StatNode"}

Writers == {"DeclarationWriter", "CodeWriter", "PxdWriter"}

OwnMethods(w) ==
    CASE w = "DeclarationWriter" -> {}
      [] w = "CodeWriter" -> CodeWriterMethods
      [] w = "PxdWriter" -> PxdWriterMethods

\* the class name <Class> of the method visit_<Class> that handles the kind
find_handler(w, kind) ==
    LET mro == MRO(kind)
        has(i) == mro[i] \in OwnMethods(w) \cup DeclarationWriterMethods
        first == CHOOSE i \in 1..Len(mro) : has(i) /\ \A j \in 1..(i - 1) : ~has(j)
    IN  mro[first]

DeclarationWriterMethod(name, node) ==
    CASE name = "Node" -> visit_Node(node)
      [] name = "ModuleNode" -> visit_ModuleNode(node)
      [] name = "StatListNode" -> visit_StatListNode(node)
      [] name = "CDefExternNode" -> visit_CDefExternNode(node)
      [] name = "CPtrDeclaratorNode" -> visit_CPtrDeclaratorNode(node)
      [] name = "CReferenceDeclaratorNode" -> visit_CReferenceDeclaratorNode(node)
      [] name = "CArrayDeclaratorNode" -> visit_CArrayDeclaratorNode(node)
      [] name = "CFuncDeclaratorNode" -> visit_CFuncDeclaratorNode(node)
      [] name = "CNameDeclaratorNode" -> visit_CNameDeclaratorNode(node)
      [] name = "CSimpleBaseTypeNode" -> visit_CSimpleBaseTypeNode(node)
      [] name = "CComplexBaseTypeNode" -> visit_CComplexBaseTypeNode(node)
      [] name = "CNestedBaseTypeNode" -> visit_CNestedBaseTypeNode(node)
      [] name = "TemplatedTypeNode" -> visit_TemplatedTypeNode(node)
      [] name = "CVarDefNode" -> visit_CVarDefNode(node)
      [] name = "CStructOrUnionDefNode" -> visit_CStructOrUnionDefNode(node)
      [] name = "CppClassNode" -> visit_CppClassNode(node)
      [] name = "CEnumDefNode" -> visit_CEnumDefNode(node)
      [] name = "CEnumDefItemNode" -> visit_CEnumDefItemNode(node)
      [] name = "CClassDefNode" -> visit_CClassDefNode(node)
      [] name = "PyClassDefNode" -> visit_PyClassDefNode(node)
      [] name = "CTypeDefNode" -> visit_CTypeDefNode(node)
      [] name = "FuncDefNode" -> visit_FuncDefNode(node)
      [] name = "CArgDeclNode" -> visit_CArgDeclNode(node)
      [] name = "CImportStatNode" -> visit_CImportStatNode(node)
      [] name = "FromCImportStatNode" -> visit_FromCImportStatNode(node)
      [] name = "NameNode" -> visit_NameNode(node)
      [] name = "IntNode" -> visit_IntNode(node)
      [] name = "NoneNode" -> visit_NoneNode(node)
      [] name = "NotNode" -> visit_NotNode(node)
      [] name = "DecoratorNode" -> visit_DecoratorNode(node)
      [] name = "BinopNode" -> visit_BinopNode(node)
      [] name = "AttributeNode" -> visit_AttributeNode(node)
      [] name = "BoolNode" -> visit_BoolNode(node)
      [] name = "StringNode" -> visit_StringNode(node)
      [] name = "PassStatNode" -> visit_PassStatNode(node)
      [] name = "ListNode" -> visit_ListNode(node)
      [] name = "TupleNode" -> visit_TupleNode(node)
      [] name = "UnicodeNode" -> visit_UnicodeNode(node)
      [] name = "AssertStatNode" -> visit_AssertStatNode(node)

CodeWriterMethod(name, node) ==
    CASE name = "SingleAssignmentNode" -> visit_SingleAssignmentNode(node)
      [] name = "CascadedAssignmentNode" -> visit_CascadedAssignmentNode(node)
      [] name = "PrintStatNode" -> visit_PrintStatNode(node)
      [] name = "ForInStatNode" -> visit_ForInStatNode(node)
      [] name = "IfStatNode" -> visit_IfStatNode(node)
      [] name = "SequenceNode" -> visit_SequenceNode(node)
      [] name = "SimpleCallNode" -> visit_SimpleCallNode(node)
      [] name = "GeneralCallNode" -> visit_GeneralCallNode(node)
      [] name = "ExprStatNode" -> visit_ExprStatNode(node)
      [] name = "InPlaceAssignmentNode" -> visit_InPlaceAssignmentNode(node)
      [] name = "WithStatNode" -> visit_WithStatNode(node)
      [] name = "TryFinallyStatNode" -> visit_TryFinallyStatNode(node)
      [] name = "TryExceptStatNode" -> visit_TryExceptStatNode(node)
      [] name = "ExceptClauseNode" -> visit_ExceptClauseNode(node)
      [] name = "ReturnStatNode" -> visit_ReturnStatNode(node)
      [] name = "ReraiseStatNode" -> visit_ReraiseStatNode(node)
      [] name = "ImportNode" -> visit_ImportNode(node)
      [] name = "TempsBlockNode" -> visit_TempsBlockNode(node)
      [] name = "TempRefNode" -> visit_TempRefNode(node)
      [] name = "BytesNode" -> visit_BytesNode(node)
      [] name = "ContinueStatNode" -> visit_ContinueStatNode(node)
      [] name = "WhileStatNode" -> visit_WhileStatNode(node)
      [] name = "BreakStatNode" -> visit_BreakStatNode(node)
      [] name = "CoerceToBooleanNode" -> visit_CoerceToBooleanNode(node)
      [] name = "FloatNode" -> visit_FloatNode(node)
      [] name = "CoerceToTempNode" -> visit_CoerceToTempNode(node)
      [] name = "FromImportStatNode" -> visit_FromImportStatNode(node)
      [] name = "PrimaryCmpNode" -> visit_PrimaryCmpNode(node)
      [] name = "BoolBinopNode" -> visit_BoolBinopNode(node)
      [] name = "IndexNode" -> visit_IndexNode(node)
      [] name = "NullNode" -> visit_NullNode(node)
      [] name = "RaiseStatNode" -> visit_RaiseStatNode(node)
      [] name = "CFuncDefNode" -> CodeWriter_visit_CFuncDefNode(node)

PxdWriterMethod(name, node) ==
    CASE name = "CFuncDefNode" -> PxdWriter_visit_CFuncDefNode(node)
      [] name = "StatNode" -> PxdWriter_visit_StatNode(node)

\* the body of the writer's method visit_<name>, applied to the node
Method(w, name, node) ==
    IF name \in OwnMethods(w)
    THEN (IF w = "CodeWriter" THEN CodeWriterMethod(name, node)
          ELSE PxdWriterMethod(name, node))
    ELSE DeclarationWriterMethod(name, node)

----------------------------------------------------------------------------
(* Code trees: the nodes of Cython.Compiler.Nodes / ExprNodes / UtilNodes, each
   with the attributes the writers read *)

ModuleNode(body) == [kind |-> "ModuleNode", body |-> body]
StatListNode(stats) == [kind |-> "StatListNode", stats |-> stats]
CDefExternNode(include_file, body) ==
    [kind |-> "CDefExternNode", include_file |-> include_file, body |-> body]
CPtrDeclaratorNode(base) == [kind |-> "CPtrDeclaratorNode", base |-> base]
CReferenceDeclaratorNode(base) == [kind |-> "CReferenceDeclaratorNode", base |-> base]
CArrayDeclaratorNode(base, dimension) ==
    [kind |-> "CArrayDeclaratorNode", base |-> base, dimension |-> dimension]
CFuncDeclaratorNode(base, args) == [kind |-> "CFuncDeclaratorNode", base |-> base, args |-> args]
CNameDeclaratorNode(name, default) ==
    [kind |-> "CNameDeclaratorNode", name |-> name, default |-> default]
CSimpleBaseTypeNode(name, is_basic_c_type, signed, longness) ==
    [kind |-> "CSimpleBaseTypeNode", name |-> name, is_basic_c_type |-> is_basic_c_type,
     signed |-> signed, longness |-> longness, is_self_arg |-> FALSE]
SelfArgType ==
    [kind |-> "CSimpleBaseTypeNode", name |-> NoStr, is_basic_c_type |-> FALSE,
     signed |-> 1, longness |-> 0, is_self_arg |-> TRUE]
CComplexBaseTypeNode(base_type, declarator) ==
    [kind |-> "CComplexBaseTypeNode", base_type |-> base_type, declarator |-> declarator]
CNestedBaseTypeNode(base_type, name) ==
    [kind |-> "CNestedBaseTypeNode", base_type |-> base_type, name |-> name]
TemplatedTypeNode(base_type_node, positional_args, keyword_args) ==
    [kind |-> "TemplatedTypeNode", base_type_node |-> base_type_node,
     positional_args |-> positional_args, keyword_args |-> keyword_args]
CVarDefNode(base_type, declarators) ==
    [kind |-> "CVarDefNode", base_type |-> base_type, declarators |-> declarators]
CStructOrUnionDefNode(struct_kind, name, cname, typedef_flag, visibility, packed, attributes) ==
    [kind |-> "CStructOrUnionDefNode", struct_kind |-> struct_kind, name |-> name,
     cname |-> cname, typedef_flag |-> typedef_flag, visibility |-> visibility,
     packed |-> packed, attributes |-> attributes]
CppClassNode(name, cname, templates, base_classes, attributes) ==
    [kind |-> "CppClassNode", name |-> name, cname |-> cname, templates |-> templates,
     base_classes |-> base_classes, attributes |-> attributes]
CEnumDefNode(name, cname, items) ==
    [kind |-> "CEnumDefNode", name |-> name, cname |-> cname, items |-> items]
CEnumDefItemNode(name, cname, value) ==
    [kind |-> "CEnumDefItemNode", name |-> name, cname |-> cname, value |-> value]
CClassDefNode(module_name, decorators, class_name, base_class_module, base_class_name, body) ==
    [kind |-> "CClassDefNode", module_name |-> module_name, decorators |-> decorators,
     class_name |-> class_name, base_class_module |-> base_class_module,
     base_class_name |-> base_class_name, body |-> body]
PyClassDefNode(name, bases, body) ==
    [kind |-> "PyClassDefNode", name |-> name, bases |-> bases, body |-> body]
CTypeDefNode(base_type, declarator) ==
    [kind |-> "CTypeDefNode", base_type |-> base_type, declarator |-> declarator]
DefNode(entry_name, name, args, star_arg, starstar_arg, body) ==
    [kind |-> "DefNode", entry_name |-> entry_name, name |-> name, args |-> args,
     star_arg |-> star_arg, starstar_arg |-> starstar_arg, body |-> body]
CFuncDefNode(name, modifiers, overridable, visibility, api, declarator, args, body) ==
    [kind |-> "CFuncDefNode", entry_name |-> NoStr, name |-> name, args |-> args,
     star_arg |-> NoStr, starstar_arg |-> NoStr, modifiers |-> modifiers,
     overridable |-> overridable, visibility |-> visibility, api |-> api,
     declarator |-> declarator, body |-> body]
CArgDeclNode(base_type, declarator, default) ==
    [kind |-> "CArgDeclNode", base_type |-> base_type, declarator |-> declarator,
     default |-> default]
CImportStatNode(module_name, as_name) ==
    [kind |-> "CImportStatNode", module_name |-> module_name, as_name |-> as_name]
FromCImportStatNode(module_name, imported_names) ==
    [kind |-> "FromCImportStatNode", module_name |-> module_name,
     imported_names |-> imported_names]
NameNode(name) == [kind |-> "NameNode", name |-> name]
IntNode(value) == [kind |-> "IntNode", value |-> value]
LongNode(value) == [kind |-> "LongNode", value |-> value]
NoneNode == [kind |-> "NoneNode"]
NotNode(operand) == [kind |-> "NotNode", operand |-> operand]
DecoratorNode(decorator) == [kind |-> "DecoratorNode", decorator |-> decorator]
BinopNode(kind, operator, operand1, operand2) ==
    [kind |-> kind, operator |-> operator, operand1 |-> operand1, operand2 |-> operand2]
AttributeNode(obj, attribute) == [kind |-> "AttributeNode", obj |-> obj, attribute |-> attribute]
BoolNode(value) == [kind |-> "BoolNode", value |-> value]
StringNode(value) == [kind |-> "StringNode", value |-> value]
UnicodeNode(value) == [kind |-> "UnicodeNode", value |-> value]
BytesNode(value) == [kind |-> "BytesNode", value |-> value]
FloatNode(value) == [kind |-> "FloatNode", value |-> value]
NullNode == [kind |-> "NullNode"]
PassStatNode == [kind |-> "PassStatNode"]
BreakStatNode == [kind |-> "BreakStatNode"]
ContinueStatNode == [kind |-> "ContinueStatNode"]
ReraiseStatNode == [kind |-> "ReraiseStatNode"]
ListNode(args) == [kind |-> "ListNode", args |-> args]
TupleNode(args) == [kind |-> "TupleNode", args |-> args]
SequenceNode(args) == [kind |-> "SequenceNode", args |-> args]
AssertStatNode(cond, value) == [kind |-> "AssertStatNode", cond |-> cond, value |-> value]
SingleAssignmentNode(lhs, rhs) == [kind |-> "SingleAssignmentNode", lhs |-> lhs, rhs |-> rhs]
CascadedAssignmentNode(lhs_list, rhs) ==
    [kind |-> "CascadedAssignmentNode", lhs_list |-> lhs_list, rhs |-> rhs]
InPlaceAssignmentNode(lhs, operator, rhs) ==
    [kind |-> "InPlaceAssignmentNode", lhs |-> lhs, operator |-> operator, rhs |-> rhs]
PrintStatNode(arg_tuple, append_newline) ==
    [kind |-> "PrintStatNode", arg_tuple |-> arg_tuple, append_newline |-> append_newline]
ForInStatNode(target, sequence, body, else_clause) ==
    [kind |-> "ForInStatNode", target |-> target, sequence |-> sequence, body |-> body,
     else_clause |-> else_clause]
IfClauseNode(condition, body) == [kind |-> "IfClauseNode", condition |-> condition, body |-> body]
IfStatNode(if_clauses, else_clause) ==
    [kind |-> "IfStatNode", if_clauses |-> if_clauses, else_clause |-> else_clause]
WhileStatNode(condition, body, else_clause) ==
    [kind |-> "WhileStatNode", condition |-> condition, body |-> body,
     else_clause |-> else_clause]
WithStatNode(manager, target, body) ==
    [kind |-> "WithStatNode", manager |-> manager, target |-> target, body |-> body]
TryFinallyStatNode(body, finally_clause) ==
    [kind |-> "TryFinallyStatNode", body |-> body, finally_clause |-> finally_clause]
TryExceptStatNode(body, except_clauses, else_clause) ==
    [kind |-> "TryExceptStatNode", body |-> body, except_clauses |-> except_clauses,
     else_clause |-> else_clause]
ExceptClauseNode(pattern, target, body) ==
    [kind |-> "ExceptClauseNode", pattern |-> pattern, target |-> target, body |-> body]
SimpleCallNode(function, args, arg_tuple) ==
    [kind |-> "SimpleCallNode", function |-> function, args |-> args, arg_tuple |-> arg_tuple]
AsTupleNode(arg) == [kind |-> "AsTupleNode", arg |-> arg]
ArgList(items) == [kind |-> "list", items |-> items]
GeneralCallNode(function, positional_args, keyword_args, starstar_arg) ==
    [kind |-> "GeneralCallNode", function |-> function, positional_args |-> positional_args,
     keyword_args |-> keyword_args, starstar_arg |-> starstar_arg]
DictNode == [kind |-> "DictNode"]
ExprStatNode(expr) == [kind |-> "ExprStatNode", expr |-> expr]
ReturnStatNode(value) == [kind |-> "ReturnStatNode", value |-> value]
RaiseStatNode(exc_type, exc_value, exc_tb) ==
    [kind |-> "RaiseStatNode", exc_type |-> exc_type, exc_value |-> exc_value,
     exc_tb |-> exc_tb]
ImportNode(module_name) == [kind |-> "ImportNode", module_name |-> module_name]
FromImportStatNode(module_name, names) ==
    [kind |-> "FromImportStatNode", module_name |-> module_name, names |-> names]
TempsBlockNode(temps, body) == [kind |-> "TempsBlockNode", temps |-> temps, body |-> body]
TempRefNode(handle) == [kind |-> "TempRefNode", handle |-> handle]
CoerceToBooleanNode(arg) == [kind |-> "CoerceToBooleanNode", arg |-> arg]
CoerceToTempNode(arg) == [kind |-> "CoerceToTempNode", arg |-> arg]
CascadedCmpNode(operator, operand2, cascade) ==
    [kind |-> "CascadedCmpNode", operator |-> operator, operand2 |-> operand2,
     cascade |-> cascade]
PrimaryCmpNode(operand1, operator, operand2, cascade) ==
    [kind |-> "PrimaryCmpNode", operand1 |-> operand1, operator |-> operator,
     operand2 |-> operand2, cascade |-> cascade]
BoolBinopNode(operand1, operator, operand2) ==
    [kind |-> "BoolBinopNode", operand1 |-> operand1, operator |-> operator,
     operand2 |-> operand2]
IndexNode(base, index) == [kind |-> "IndexNode", base |-> base, index |-> index]

----------------------------------------------------------------------------
(* The trees given to write(): bounded families of well-formed trees *)

MaxItems == 3      \* longest list given to comma_separated_list
MaxCascade == 2    \* most cascade links of a comparison
MaxBlocks == 2     \* most temporary-allocation blocks in a tree
MaxTemps == 2      \* most temporaries of a block
MaxDepth == 2      \* deepest nesting of compound statements

SeqsUpTo(S, n) == UNION {[1..k -> S] : k \in 0..n}

A == NameNode("a")
B == NameNode("b")
One == IntNode("1")
Two == IntNode("2")
IntType == CSimpleBaseTypeNode("int", TRUE, 1, 0)
Empty == StatListNode(<<>>)
Pass == StatListNode(<<PassStatNode>>)

Exprs ==
    {A, One, NoneNode, NullNode, LongNode("1L"), NotNode(A), BoolNode(TRUE), BoolNode(FALSE),
     StringNode("x"), UnicodeNode("x"), BytesNode("x"), FloatNode("1.0"),
     BinopNode("BinopNode", "*", A, B), BinopNode("AddNode", "+", A, One),
     BoolBinopNode(A, "and", B), IndexNode(A, One),
     AttributeNode(A, "f"), AttributeNode(AttributeNode(A, "f"), "g"),
     AttributeNode(BinopNode("AddNode", "+", A, B), "f"),
     ListNode(<<>>), ListNode(<<A, B>>), TupleNode(<<>>), TupleNode(<<A>>),
     SequenceNode(<<A, B>>),
     SimpleCallNode(A, <<>>, None), SimpleCallNode(A, <<One, B>>, None),
     SimpleCallNode(A, <<>>, TupleNode(<<B>>)),
     SimpleCallNode(BinopNode("AddNode", "+", A, B), <<One>>, None),
     SimpleCallNode(SimpleCallNode(A, <<>>, None), <<>>, None),
     CoerceToBooleanNode(A), CoerceToTempNode(NotNode(B)), ImportNode("m"),
     TempRefNode(<<0, 1>>)}

\* comparisons a <op> b <op> c ... with up to MaxCascade cascade links
CmpOps == {"<", "=="}

RECURSIVE Cascades(_)
Cascades(n) ==
    IF n = 0 THEN {None}
    ELSE {CascadedCmpNode(op, NameNode("c"), rest) : op \in CmpOps, rest \in Cascades(n - 1)}

Comparisons ==
    {PrimaryCmpNode(A, op, B, c) :
        op \in CmpOps, c \in UNION {Cascades(n) : n \in 0..MaxCascade}}

\* general calls: positional arguments as a list or as a starred argument, with
\* and without keyword arguments and a ** argument
GeneralCalls ==
    {GeneralCallNode(A, pos, kw, ss) :
        pos \in {ArgList(items) : items \in SeqsUpTo({B, One}, MaxItems)}
                \cup {AsTupleNode(B)},
        kw \in {None, DictNode},
        ss \in {None, NameNode("kw")}}

\* variable declarations: declarators with and without a default
Declarators ==
    {CNameDeclaratorNode("a", One), CNameDeclaratorNode("b", Two),
     CNameDeclaratorNode("c", None)}

CVarDefs == {CVarDefNode(IntType, ds) : ds \in SeqsUpTo(Declarators, MaxItems)}

\* other users of comma_separated_list
CArgs ==
    {CArgDeclNode(IntType, CNameDeclaratorNode("x", None), None),
     CArgDeclNode(IntType, CNameDeclaratorNode("y", None), One)}

FuncDeclarators ==
    {CFuncDeclaratorNode(CNameDeclaratorNode("f", None), args) :
        args \in SeqsUpTo(CArgs, MaxItems)}

Lists ==
    {DefNode(NoStr, "f", args, star, starstar, Pass) :
        args \in SeqsUpTo({CArgDeclNode(SelfArgType, CNameDeclaratorNode("self", None), None)}
                          \cup CArgs, MaxItems - 1),
        star \in {NoStr, "args"}, starstar \in {NoStr, "kw"}}
    \cup {PrintStatNode(TupleNode(args), nl) :
            args \in SeqsUpTo({A, One}, MaxItems), nl \in BOOLEAN}
    \cup {CTypeDefNode(IntType, d) : d \in FuncDeclarators}
    \cup {CTypeDefNode(TemplatedTypeNode(CSimpleBaseTypeNode("vector", FALSE, 1, 0), pos, kw),
                       CNameDeclaratorNode("t", None)) :
            pos \in SeqsUpTo({IntType}, MaxItems - 1), kw \in SeqsUpTo({DictNode}, 1)}

\* container definitions with zero or more attributes, at indent levels 0 and 1
Attributes ==
    {CVarDefNode(IntType, <<CNameDeclaratorNode("x", None)>>),
     CVarDefNode(CSimpleBaseTypeNode("int", TRUE, 0, 1), <<CNameDeclaratorNode("y", None)>>)}

EnumItems ==
    {CEnumDefItemNode("e", NoStr, None), CEnumDefItemNode("f", "cf", One)}

Containers ==
    {CStructOrUnionDefNode(k, "S", cname, td, vis, packed, attrs) :
        k \in {"struct", "union"}, cname \in {NoStr, "cS"}, td \in BOOLEAN,
        vis \in {"private", "public"}, packed \in BOOLEAN, attrs \in {<<>>}}
    \cup {CStructOrUnionDefNode(k, "S", NoStr, FALSE, "private", FALSE, attrs) :
            k \in {"struct", "union"}, attrs \in SeqsUpTo(Attributes, MaxItems - 1)}
    \cup {CppClassNode("C", cname, templates, bases, attrs) :
            cname \in {NoStr, "cC"}, templates \in {<<>>, <<"T", "U">>},
            bases \in {<<>>, <<"Base">>}, attrs \in SeqsUpTo(Attributes, 1)}
    \cup {CEnumDefNode(name, NoStr, items) :
            name \in {"", "E"}, items \in SeqsUpTo(EnumItems, MaxItems - 1)}

ContainerTrees ==
    Containers
    \cup {CDefExternNode(f, StatListNode(<<c>>)) : f \in {NoStr, "h.h"}, c \in Containers}

\* C function definitions, as the declarations writer and the full writer render them
CFuncDefs ==
    {CFuncDefNode("f", modifiers, overridable, visibility, api, declarator, <<>>, body) :
        modifiers \in {<<>>, <<"inline">>, <<"nogil">>, <<"nogil", "inline">>},
        overridable \in BOOLEAN,
        visibility \in {"private", "public"},
        api \in BOOLEAN,
        declarator \in {CFuncDeclaratorNode(CNameDeclaratorNode("f", None), <<>>),
                        CPtrDeclaratorNode(
                            CFuncDeclaratorNode(CNameDeclaratorNode("f", None),
                                <<CArgDeclNode(IntType, CNameDeclaratorNode("x", None),
                                               None)>>))},
        body \in {Empty, Pass}}

CFuncDefTrees ==
    CFuncDefs
    \cup {ModuleNode(StatListNode(<<CImportStatNode("m", NoStr), f>>)) : f \in CFuncDefs}

\* temporary-allocation blocks, nested or in sequence; the handles of block i are
\* <<i, 1>>, <<i, 2>>, ..., and each body refers to the temporaries of its block
Handles(i, n) == [k \in 1..n |-> <<i, k>>]

TempRefs(i, n) == [k \in 1..n |-> ExprStatNode(TempRefNode(<<i, k>>))]

RECURSIVE Blocks(_, _, _, _)
Blocks(i, n, counts, nested) ==
    IF i > n THEN <<>>
    ELSE IF nested[i]
    THEN <<TempsBlockNode(Handles(i, counts[i]),
               StatListNode(Blocks(i + 1, n, counts, nested) \o TempRefs(i, counts[i])))>>
    ELSE <<TempsBlockNode(Handles(i, counts[i]), StatListNode(TempRefs(i, counts[i])))>>
         \o Blocks(i + 1, n, counts, nested)

TempTrees ==
    {StatListNode(Blocks(1, n, counts, nested)) :
        n \in 1..MaxBlocks, counts \in [1..MaxBlocks -> 0..MaxTemps],
        nested \in [1..MaxBlocks -> BOOLEAN]}

\* simple statements
SimpleStats ==
    {ExprStatNode(A), SingleAssignmentNode(A, One), CascadedAssignmentNode(<<A, B>>, One),
     InPlaceAssignmentNode(A, "+", One), ReturnStatNode(None), ReturnStatNode(A),
     ReraiseStatNode, RaiseStatNode(None, None, None), RaiseStatNode(A, None, None),
     PassStatNode, BreakStatNode, ContinueStatNode,
     AssertStatNode(A, None), AssertStatNode(A, StringNode("m")),
     CImportStatNode("m", NoStr), CImportStatNode("m", "n"),
     FromCImportStatNode("m", <<>>),
     FromCImportStatNode("m", <<[name |-> "x", as_name |-> NoStr, kind |-> NoStr],
                                [name |-> "y", as_name |-> "z", kind |-> NoStr]>>),
     FromCImportStatNode("m", <<[name |-> "x", as_name |-> NoStr, kind |-> NoStr],
                                [name |-> "S", as_name |-> NoStr, kind |-> "struct"]>>),
     FromImportStatNode("m", <<"x", "y">>),
     CVarDefNode(CSimpleBaseTypeNode("int", TRUE, 2, 0 - 1),
                 <<CPtrDeclaratorNode(CNameDeclaratorNode("p", None))>>),
     CVarDefNode(CNestedBaseTypeNode(CSimpleBaseTypeNode("T", FALSE, 1, 0), "U"),
                 <<CArrayDeclaratorNode(CNameDeclaratorNode("v", None), None)>>),
     CVarDefNode(CComplexBaseTypeNode(IntType, CPtrDeclaratorNode(CNameDeclaratorNode("", None))),
                 <<CArrayDeclaratorNode(CReferenceDeclaratorNode(CNameDeclaratorNode("w", None)),
                                        One)>>),
     CTypeDefNode(CSimpleBaseTypeNode("int", TRUE, 0, 2), CNameDeclaratorNode("ull", None))}

\* compound statements around a body, nested up to MaxDepth deep
Leaves == {Empty, Pass, StatListNode(<<ExprStatNode(A), ExprStatNode(LongNode("1L"))>>)}

Elses == {None, Empty}

Compound(body) ==
    {ForInStatNode(target, B, body, e) : target \in {A, TupleNode(<<A, B>>)}, e \in Elses}
    \cup {IfStatNode(clauses, e) :
            clauses \in {<<IfClauseNode(A, body)>>,
                         <<IfClauseNode(A, Pass), IfClauseNode(B, body)>>},
            e \in Elses}
    \cup {WhileStatNode(A, body, e) : e \in Elses}
    \cup {WithStatNode(A, target, body) : target \in {None, B}}
    \cup {TryFinallyStatNode(body, Empty), TryFinallyStatNode(Pass, body)}
    \cup {TryExceptStatNode(body, <<ExceptClauseNode(pattern, target, body)>>, e) :
            pattern \in {None, A}, target \in {None, B}, e \in Elses}
    \cup {TryExceptStatNode(Pass, <<ExceptClauseNode(A, None, Pass),
                                    ExceptClauseNode(None, None, body)>>, None)}
    \cup {DefNode("g", "f", <<>>, NoStr, NoStr, body),
          CFuncDefNode("f", <<>>, FALSE, "private", FALSE,
                       CFuncDeclaratorNode(CNameDeclaratorNode("f", None), <<>>), <<>>, body),
          CClassDefNode(NoStr, <<>>, "K", NoStr, NoStr, body),
          CClassDefNode(NoStr, <<DecoratorNode(A)>>, "K", "m", "Base", body),
          CClassDefNode("m", <<>>, "K", NoStr, NoStr, body),
          PyClassDefNode("K", None, body),
          PyClassDefNode("K", TupleNode(<<A>>), body),
          CDefExternNode(NoStr, body),
          ModuleNode(body),
          TempsBlockNode(<<>>, body)}

Outer(body) ==
    {IfStatNode(<<IfClauseNode(A, body)>>, Pass),
     ForInStatNode(A, B, Pass, body),
     TryExceptStatNode(body, <<ExceptClauseNode(None, None, Pass)>>, None)}

RECURSIVE Nest(_)
Nest(d) ==
    IF d = 0 THEN Leaves
    ELSE IF d = 1 THEN {StatListNode(<<c>>) : c \in UNION {Compound(b) : b \in Leaves}}
    ELSE {StatListNode(<<PassStatNode, c>>) : c \in UNION {Outer(b) : b \in Nest(d - 1)}}

StatTrees ==
    SimpleStats
    \cup {StatListNode(<<PassStatNode, ExprStatNode(e)>>) :
            e \in Exprs \cup Comparisons \cup GeneralCalls}
    \cup {StatListNode(<<st>>) : st \in CVarDefs \cup Lists}
    \cup UNION {Nest(d) : d \in 0..MaxDepth}

Trees ==
    Exprs \cup Comparisons \cup GeneralCalls \cup StatTrees \cup ContainerTrees
    \cup CFuncDefTrees \cup TempTrees


----------------------------------------------------------------------------
(* Temporaries *)

TempName(blockindex, idx) == <<"$">> \o Dec(blockindex) \o <<"_">> \o Dec(idx)

FirstSlot == 0

RECURSIVE AssignTemps(_, _, _, _)
\* the loop of visit_TempsBlockNode over node.temps, from slot idx on
AssignTemps(names, temps, blockindex, idx) ==
    IF temps = <<>> THEN names
    ELSE AssignTemps({p \in names : p[1] # Head(temps)}
                       \cup {<<Head(temps), TempName(blockindex, idx)>>},
                     Tail(temps), blockindex, idx + 1)

\* a block counter that is never incremented
NextBlockIndex_stuck(blockindex) == blockindex

NextBlockIndex(blockindex) == blockindex + 1

HasTemp(handle) == \E p \in tempnames : p[1] = handle
TempOf(handle) == (CHOOSE p \in tempnames : p[1] = handle)[2]

----------------------------------------------------------------------------
(* The writer as a state machine *)

Top == stack[Len(stack)]
AtStatement == pc = "running" /\ Top.ip <= Len(Top.code)
Cur == Top.code[Top.ip]
Advanced == [stack EXCEPT ![Len(stack)].ip = @ + 1]
Result == [lines |-> lines, s |-> s]

Frame(fn, method, node, code) ==
    [fn |-> fn, method |-> method, node |-> node, code |-> code, ip |-> 1,
     entry |-> [lines |-> lines, s |-> s, numindents |-> numindents,
                nhistory |-> Len(history)]]

VisitFrame(node) ==
    LET name == find_handler(writer, node.kind)
    IN  Frame("visit", name, node, Method(writer, name, node))

Init ==
    /\ writer \in Writers
    /\ tree \in Trees
    /\ pc = "init"
    /\ lines = <<>>
    /\ s = <<>>
    /\ numindents = 0
    /\ tempnames = {}
    /\ tempblockindex = 0
    /\ stack = <<>>
    /\ error = None
    /\ history = <<>>
    /\ allocs = <<>>

\* write(tree) is called: self.visit(tree) is its first statement
write ==
    /\ pc = "init"
    /\ pc' = "running"
    /\ stack' = <<Frame("write", "write", tree, <<do_visit(tree)>>)>>
    /\ UNCHANGED <<writer, tree, lines, s, numindents, tempnames, tempblockindex,
                   error, history, allocs>>

indent ==
    /\ AtStatement /\ Cur.op = "indent"
    /\ numindents' = numindents + 1
    /\ stack' = Advanced
    /\ UNCHANGED <<writer, tree, pc, lines, s, tempnames, tempblockindex, error, history,
                   allocs>>

dedent ==
    /\ AtStatement /\ Cur.op = "dedent"
    /\ numindents' = numindents - 1
    /\ stack' = Advanced
    /\ UNCHANGED <<writer, tree, pc, lines, s, tempnames, tempblockindex, error, history,
                   allocs>>

startline ==
    /\ AtStatement /\ Cur.op = "startline"
    /\ LET text == Indentation(numindents) \o Cur.text
           r == LinesResult_put(Result, text)
       IN  lines' = r.lines /\ s' = r.s /\ history' = Append(history, text)
    /\ stack' = Advanced
    /\ UNCHANGED <<writer, tree, pc, numindents, tempnames, tempblockindex, error, allocs>>

put ==
    /\ AtStatement /\ Cur.op = "put"
    /\ LET r == LinesResult_put(Result, Cur.text)
       IN  lines' = r.lines /\ s' = r.s /\ history' = Append(history, Cur.text)
    /\ stack' = Advanced
    /\ UNCHANGED <<writer, tree, pc, numindents, tempnames, tempblockindex, error, allocs>>

putline ==
    /\ AtStatement /\ Cur.op = "putline"
    /\ LET text == Indentation(numindents) \o Cur.text
           r == LinesResult_putline(Result, text)
       IN  lines' = r.lines /\ s' = r.s /\ history' = history \o <<text, NL>>
    /\ stack' = Advanced
    /\ UNCHANGED <<writer, tree, pc, numindents, tempnames, tempblockindex, error, allocs>>

endline ==
    /\ AtStatement /\ Cur.op = "endline"
    /\ LET r == LinesResult_putline(Result, Cur.text)
       IN  lines' = r.lines /\ s' = r.s /\ history' = history \o <<Cur.text, NL>>
    /\ stack' = Advanced
    /\ UNCHANGED <<writer, tree, pc, numindents, tempnames, tempblockindex, error, allocs>>

line ==
    /\ AtStatement /\ Cur.op = "line"
    /\ LET text == Indentation(numindents) \o Cur.text
           r == LinesResult_putline(LinesResult_put(Result, text), <<>>)
       IN  lines' = r.lines /\ s' = r.s /\ history' = history \o <<text, <<>>, NL>>
    /\ stack' = Advanced
    /\ UNCHANGED <<writer, tree, pc, numindents, tempnames, tempblockindex, error, allocs>>

\* self.visit(node): the call enters the method the dispatch finds
visit ==
    /\ AtStatement /\ Cur.op = "visit"
    /\ stack' = Append(Advanced, VisitFrame(Cur.node))
    /\ UNCHANGED <<writer, tree, pc, lines, s, numindents, tempnames, tempblockindex,
                   error, history, allocs>>

\* self.comma_separated_list(items, output_rhs) is called
call_comma_separated_list ==
    /\ AtStatement /\ Cur.op = "comma_separated_list"
    /\ stack' = Append(Advanced,
                       Frame("comma_separated_list", "comma_separated_list",
                             [kind |-> "list", items |-> Cur.items,
                              output_rhs |-> Cur.output_rhs],
                             comma_separated_list(Cur.items, Cur.output_rhs)))
    /\ UNCHANGED <<writer, tree, pc, lines, s, numindents, tempnames, tempblockindex,
                   error, history, allocs>>

\* the allocation loop of visit_TempsBlockNode and the increment after it
allocate_temps ==
    /\ AtStatement /\ Cur.op = "temps"
    /\ LET names == AssignTemps(tempnames, Cur.temps, tempblockindex, FirstSlot)
       IN  /\ tempnames' = names
           /\ allocs' = Append(allocs,
                               [index |-> tempblockindex,
                                handles |-> Cur.temps,
                                names |-> [k \in 1..Len(Cur.temps) |->
                                    (CHOOSE p \in names : p[1] = Cur.temps[k])[2]]])
    /\ tempblockindex' = NextBlockIndex(tempblockindex)
    /\ stack' = Advanced
    /\ UNCHANGED <<writer, tree, pc, lines, s, numindents, error, history>>

\* self.put(self.tempnames[node.handle]) with the handle in the table
put_tempname ==
    /\ AtStatement /\ Cur.op = "tempname" /\ HasTemp(Cur.handle)
    /\ LET text == TempOf(Cur.handle)
           r == LinesResult_put(Result, text)
       IN  lines' = r.lines /\ s' = r.s /\ history' = Append(history, text)
    /\ stack' = Advanced
    /\ UNCHANGED <<writer, tree, pc, numindents, tempnames, tempblockindex, error, allocs>>

\* a raise statement, or the KeyError of self.tempnames[node.handle]; nothing in
\* this module catches it, so it leaves write()
raise ==
    /\ AtStatement
    /\ \/ Cur.op = "raise" /\ error' = [kind |-> Cur.type, node |-> Top.node]
       \/ Cur.op = "tempname" /\ ~HasTemp(Cur.handle)
          /\ error' = [kind |-> "KeyError", node |-> Top.node]
    /\ pc' = "error"
    /\ UNCHANGED <<writer, tree, lines, s, numindents, tempnames, tempblockindex, stack,
                   history, allocs>>

\* the method at the top of the stack returns; write() returns self.result
return ==
    /\ pc = "running" /\ Top.ip > Len(Top.code)
    /\ stack' = SubSeq(stack, 1, Len(stack) - 1)
    /\ pc' = IF Len(stack) = 1 THEN "done" ELSE "running"
    /\ UNCHANGED <<writer, tree, lines, s, numindents, tempnames, tempblockindex, error,
                   history, allocs>>

Next ==
    \/ write
    \/ indent
    \/ dedent
    \/ startline
    \/ put
    \/ putline
    \/ endline
    \/ line
    \/ visit
    \/ call_comma_separated_list
    \/ allocate_temps
    \/ put_tempname
    \/ raise
    \/ return

Spec == Init /\ [][Next]_vars

----------------------------------------------------------------------------
(* Properties *)

\* the method at the top of the stack has executed its last statement
Returning == pc = "running" /\ Top.ip > Len(Top.code)

\* the text of the LinesResult calls made since the frame was entered
Appended(f) == Flatten(SubSeq(history, f.entry.nhistory + 1, Len(history)))

IsPrefix(a, b) == Len(a) <= Len(b) /\ SubSeq(b, 1, Len(a)) = a

Range(seq) == {seq[i] : i \in DOMAIN seq}

\* the committed lines as one text, each line followed by a line separator
LinesText(ls) == Flatten([i \in 1..Len(ls) |-> ls[i] \o NL])

\* C1: whenever the visit of a node returns, numindents has the value it had when
\* the visit was entered; during the visit it is never below that value; and it
\* is 0 when write(tree) has returned on a fresh writer.
C1_IndentationBalance ==
    /\ \A i \in DOMAIN stack : numindents >= stack[i].entry.numindents
    /\ Returning => numindents = Top.entry.numindents
    /\ pc = "done" => numindents = 0

\* an if statement nested in an indented block returns after writing its own
\* indented body
C1_Witness ==
    /\ Returning
    /\ Top.method = "IfStatNode"
    /\ Top.entry.numindents > 0
    /\ numindents = Top.entry.numindents
    /\ Len(lines) > Len(Top.entry.lines) + 1

\* the declarators a = 1, b = 2, ... as the claim says they are rendered
RECURSIVE WithDefaults(_)
WithDefaults(items) ==
    IF items = <<>> THEN <<>>
    ELSE <<Head(items).name>>
         \o When(Head(items).default # None, <<" = ", Head(items).default.value>>)
         \o When(Len(items) > 1, <<", ">>)
         \o WithDefaults(Tail(items))

\* C2: when comma_separated_list is called with output_rhs=True, every item with
\* a default is followed by " = " and its default, whatever its position, and no
\* item without a default is; so the declarators a = 1, b = 2 both show their default.
C2_DefaultOfEveryItem ==
    (/\ Returning /\ Top.fn = "comma_separated_list" /\ Top.node.output_rhs
     /\ \A j \in DOMAIN Top.node.items : Top.node.items[j].kind = "CNameDeclaratorNode")
        => Appended(Top) = WithDefaults(Top.node.items)

RECURSIVE LinkTokens(_)
LinkTokens(c) ==
    IF c = None THEN <<>> ELSE <<c.operator, c.operand2.name>> \o LinkTokens(c.cascade)

\* C3: a chained comparison is rendered as its first operand followed by each
\* link's own operator and own operand, in order (blanks aside).
C3_OperatorOfEachLink ==
    (Returning /\ Top.method = "PrimaryCmpNode")
        => SelectSeq(Appended(Top), LAMBDA tok : tok # " ")
           = <<Top.node.operand1.name, Top.node.operator, Top.node.operand2.name>>
             \o LinkTokens(Top.node.cascade)

\* C4: the visit of a general call with keyword_args or starstar_arg never
\* returns, and when its error is raised the buffer is as it was when the visit
\* of the call began; write() does not return.
C4_NoPartialCall ==
    \A i \in DOMAIN stack :
        LET f == stack[i] IN
        (/\ f.fn = "visit" /\ f.method = "GeneralCallNode"
         /\ (f.node.keyword_args # None \/ f.node.starstar_arg # None))
        => /\ pc # "done"
           /\ ~(i = Len(stack) /\ Returning)
           /\ (pc = "error" /\ i = Len(stack) /\ error.kind = "Exception")
                => (lines = f.entry.lines /\ s = f.entry.s)

\* C5: when dispatch falls through to visit_Node, the traversal aborts there with
\* an AssertionError for that node: the method makes no call and no put or
\* newline, never returns, and the buffer stays as it was when the node was reached.
C5_CoverageError ==
    \A i \in DOMAIN stack :
        LET f == stack[i] IN
        (f.fn = "visit" /\ f.method = "Node")
        => /\ i = Len(stack)
           /\ f.ip = 1
           /\ f.ip <= Len(f.code)
           /\ f.code[f.ip].op = "raise"
           /\ lines = f.entry.lines /\ s = f.entry.s
           /\ Len(history) = f.entry.nhistory
           /\ pc \in {"running", "error"}
           /\ pc = "error" => (error.kind = "AssertionError" /\ error.node = f.node)

\* an unhandled node below an indented block, after lines were committed
C5_Witness ==
    /\ pc = "error"
    /\ Top.method = "Node"
    /\ error.node = Top.node
    /\ numindents > 0
    /\ Len(lines) > 1

\* C6: block indices strictly increase from block to block, slots are numbered
\* from 0 in each block, the names of two distinct blocks differ, the names of a
\* block are in the table while its body is rendered, and a reference renders
\* the name its block gave the temporary.
C6_TempNames ==
    /\ \A i, j \in DOMAIN allocs : i < j => allocs[i].index < allocs[j].index
    /\ \A i \in DOMAIN allocs : \A k \in DOMAIN allocs[i].names :
           allocs[i].names[k] = <<"$">> \o Dec(allocs[i].index) \o <<"_">> \o Dec(k - 1)
    /\ \A i, j \in DOMAIN allocs : \A k \in DOMAIN allocs[i].names :
           \A l \in DOMAIN allocs[j].names :
               i # j => allocs[i].names[k] # allocs[j].names[l]
    /\ \A i \in DOMAIN stack :
           (stack[i].fn = "visit" /\ stack[i].method = "TempsBlockNode" /\ stack[i].ip > 1)
           => \A k \in DOMAIN stack[i].node.temps : HasTemp(stack[i].node.temps[k])
    /\ (Returning /\ Top.method = "TempRefNode")
           => \E i \in DOMAIN allocs : \E k \in DOMAIN allocs[i].names :
                  /\ allocs[i].handles[k] = Top.node.handle
                  /\ history[Len(history)] = allocs[i].names[k]

\* two blocks that both use slot 0, and a reference rendered in the second
C6_Witness ==
    /\ Returning
    /\ Top.method = "TempRefNode"
    /\ Len(allocs) = 2
    /\ Len(allocs[1].names) > 0
    /\ Len(allocs[2].names) > 0
    /\ history[Len(history)] = allocs[2].names[1]

IsStatementRoot(node) ==
    node.kind \in {"ModuleNode", "StatListNode"} \/ isinstance(node, {"StatNode"})

\* C7 as stated: when write(tree) returns, all the text put is in the committed
\* lines, in order, and the in-progress line is empty.
C7_NothingUncommitted ==
    pc = "done" => (s = <<>> /\ Flatten(history) = LinesText(lines))

\* C7 where the code meets it: the committed lines followed by the in-progress
\* line are all the text put, in order, each newline() having committed one
\* line, empty or not; committed lines are never changed; and the in-progress
\* line is empty when write(tree) returns for a module, statement list or
\* statement.  For an expression root the text is left in the in-progress line.
C7_OutputComplete ==
    /\ Flatten(history) = LinesText(lines) \o s
    /\ \A i \in DOMAIN stack : IsPrefix(stack[i].entry.lines, lines)
    /\ (pc = "done" /\ IsStatementRoot(tree)) => s = <<>>

\* write() has returned several lines for a statement, one of them empty
C7_Witness ==
    /\ pc = "done"
    /\ IsStatementRoot(tree)
    /\ Len(lines) > 2
    /\ \E i \in DOMAIN lines : lines[i] = <<>>

IsSeparator(st) == st.op = "put" /\ st.text = <<", ">>

\* the statements between the separators of a statement sequence
RECURSIVE Segments(_, _)
Segments(code, cur) ==
    IF code = <<>> THEN <<cur>>
    ELSE IF IsSeparator(Head(code)) THEN <<cur>> \o Segments(Tail(code), <<>>)
    ELSE Segments(Tail(code), Append(cur, Head(code)))

IsSimple(item) == item.kind \in {"NameNode", "IntNode"}

SimpleText(item) == IF item.kind = "NameNode" THEN item.name ELSE item.value

\* C8: comma_separated_list with N >= 1 items visits the items in order with
\* exactly N-1 separators ", ", one between two consecutive items, none before
\* the first and none after the last; with no items it appends nothing.
C8_Separators ==
    (Returning /\ Top.fn = "comma_separated_list")
    => LET items == Top.node.items
           segs == Segments(Top.code, <<>>)
       IN  IF Len(items) = 0
           THEN /\ Len(history) = Top.entry.nhistory
                /\ lines = Top.entry.lines /\ s = Top.entry.s
           ELSE /\ Len(segs) = Len(items)
                /\ \A j \in DOMAIN segs :
                       /\ segs[j] # <<>>
                       /\ segs[j][1].op = "visit" /\ segs[j][1].node = items[j]
                       /\ \A k \in 2..Len(segs[j]) : segs[j][k].op \in {"put", "visit"}
                /\ ((\A j \in DOMAIN items : IsSimple(items[j])) /\ ~Top.node.output_rhs)
                       => Appended(Top)
                          = Join(<<", ">>, [j \in DOMAIN items |-> SimpleText(items[j])])

\* a list of three items has been written with two separators
C8_Witness ==
    /\ Returning
    /\ Top.fn = "comma_separated_list"
    /\ Len(Top.node.items) = 3
    /\ Len(SelectSeq(Appended(Top), LAMBDA tok : tok = ", ")) = 2

\* the text PxdWriter writes for a function before it visits the declarator
Signature(node, n) ==
    Indentation(n)
    \o <<IF node.overridable THEN "cpdef " ELSE "cdef ">>
    \o When(node.visibility # "private", <<node.visibility, " ">>)
    \o When(node.api, <<"api ">>)

\* C9: in PxdWriter the visit of a function with the modifier "inline" changes
\* nothing of the writer, so such a function alone gives no lines; for another
\* function the writer puts the signature and visits the declarator only, never
\* the body.
C9_PxdFunctions ==
    /\ \A i \in DOMAIN stack :
           LET f == stack[i] IN
           (writer = "PxdWriter" /\ f.fn = "visit" /\ f.node.kind = "CFuncDefNode")
           => IF "inline" \in Range(f.node.modifiers)
              THEN /\ i = Len(stack)
                   /\ lines = f.entry.lines /\ s = f.entry.s
                   /\ numindents = f.entry.numindents
                   /\ Len(history) = f.entry.nhistory
              ELSE /\ numindents = f.entry.numindents
                   /\ i < Len(stack) =>
                          /\ stack[i + 1].node = f.node.declarator
                          /\ Flatten(SubSeq(history, f.entry.nhistory + 1,
                                            stack[i + 1].entry.nhistory))
                             = Signature(f.node, numindents)
                   /\ (i = Len(stack) /\ Returning) =>
                          Len(lines) = Len(f.entry.lines) + 1
    /\ (/\ pc = "done" /\ writer = "PxdWriter" /\ tree.kind = "CFuncDefNode"
        /\ "inline" \in Range(tree.modifiers))
           => (lines = <<>> /\ s = <<>>)

\* an inline function is skipped after another statement wrote a line
C9_Witness ==
    /\ Returning
    /\ writer = "PxdWriter"
    /\ Top.fn = "visit"
    /\ Top.node.kind = "CFuncDefNode"
    /\ "inline" \in Range(Top.node.modifiers)
    /\ Len(lines) = 1

ContainerMethods == {"CStructOrUnionDefNode", "CppClassNode", "CEnumDefNode"}

AttributesOf(node) == IF node.kind = "CEnumDefNode" THEN node.items ELSE node.attributes

\* C10: a statement list without statements appends exactly one line, the
\* indentation followed by "pass"; a container definition without attributes
\* renders its header line and exactly one line "pass" one level deeper; with
\* attributes it renders, after the header, the lines of the attributes only.
C10_EmptyBodies ==
    (Returning /\ Top.fn = "visit")
    => /\ (Top.method = "StatListNode" /\ Top.node.stats = <<>>)
           => /\ lines = Append(Top.entry.lines, Indentation(numindents) \o <<"pass">>)
              /\ s = <<>>
       /\ Top.method \in ContainerMethods
           => LET n == Len(Top.entry.lines)
                  body == Indentation(numindents + 1) \o <<"pass">>
              IN  /\ s = <<>>
                  /\ IsPrefix(Top.entry.lines, lines)
                  /\ Len(lines) > n
                  /\ IsPrefix(Indentation(numindents), lines[n + 1])
                  /\ lines[n + 1][numindents + 1] # indent_string
                  /\ lines[n + 1][Len(lines[n + 1])] = ":"
                  /\ IF AttributesOf(Top.node) = <<>>
                     THEN Len(lines) = n + 2 /\ lines[n + 2] = body
                     ELSE /\ Len(lines) = n + 1 + Len(AttributesOf(Top.node))
                          /\ \A k \in (n + 2)..Len(lines) : lines[k] # body

\* a container without attributes, inside an extern block, has been written
C10_Witness ==
    /\ Returning
    /\ Top.fn = "visit"
    /\ Top.method \in ContainerMethods
    /\ AttributesOf(Top.node) = <<>>
    /\ numindents = 1
    /\ Len(lines) = 3

CompoundMethods ==
    {"IfStatNode", "ForInStatNode", "WhileStatNode", "WithStatNode",
     "TryFinallyStatNode", "TryExceptStatNode", "ExceptClauseNode"}

\* the position of the last visit among the statements of a method
LastVisit(code) ==
    CHOOSE i \in DOMAIN code :
        code[i].op = "visit" /\ \A j \in DOMAIN code : code[j].op = "visit" => j <= i

\* stack[i] is the visit of a clause body made by a compound statement rule
IsClauseBody(i) ==
    /\ i > 1
    /\ stack[i].fn = "visit" /\ stack[i - 1].fn = "visit"
    /\ stack[i - 1].method \in CompoundMethods
    /\ IsStatementRoot(stack[i].node)

\* stack[i] is the visit of the else clause of the statement of stack[i - 1]
IsElseBody(i) ==
    /\ IsClauseBody(i)
    /\ "else_clause" \in DOMAIN stack[i - 1].node
    /\ stack[i - 1].node.else_clause # None
    /\ stack[i - 1].ip - 1 = LastVisit(stack[i - 1].code)

\* the body visited in stack[i] follows a header line written at the level of
\* its statement (the line "else:" when else is TRUE), starts on an empty
\* in-progress line one level deeper, and all its lines are at least that deep
\* (a blank line, as visit_CFuncDefNode leaves after a function, has no indent)
BlockOf(i, else) ==
    LET level == stack[i - 1].entry.numindents
        before == stack[i].entry.lines
        header == before[Len(before)]
    IN  /\ Len(before) > Len(stack[i - 1].entry.lines)
        /\ Len(header) > level
        /\ IsPrefix(Indentation(level), header)
        /\ header[level + 1] # indent_string
        /\ header[Len(header)] \in {":", "try:", "finally:", "else:"}
        /\ else => header = Indentation(level) \o <<"else:">>
        /\ stack[i].entry.s = <<>>
        /\ stack[i].entry.numindents = level + 1
        /\ \A k \in (Len(before) + 1)..Len(lines) :
               lines[k] = <<>> \/ IsPrefix(Indentation(level + 1), lines[k])

\* C11: in the full writer every clause body of a compound statement (if/elif/
\* else, for and while with else, with, try/finally, try/except with its except
\* clauses and else clause) comes immediately after a header line written at the
\* statement's own indent level, "else:" for an else clause, and the lines of
\* the body are indented one level deeper than that header; so the else clause
\* of try/except follows a line "else:" and is indented.
C11_BlockStructure ==
    writer = "CodeWriter"
    => \A i \in DOMAIN stack : IsClauseBody(i) => BlockOf(i, IsElseBody(i))

\* C11 where the code meets it: every clause body except the else clause of a
\* try/except statement, which is visited with no header line and no indent.
C11_BlockStructureButTryElse ==
    writer = "CodeWriter"
    => \A i \in DOMAIN stack :
           (IsClauseBody(i)
            /\ ~(stack[i - 1].method = "TryExceptStatNode" /\ IsElseBody(i)))
           => BlockOf(i, IsElseBody(i))

\* the else clause of a try/except statement has been written without a header:
\* the line before its body is the last line of the except clause, and the body
\* is at the level of the try statement
C11_TryElseWithoutHeader ==
    /\ writer = "CodeWriter"
    /\ Returning
    /\ Len(stack) > 1
    /\ IsElseBody(Len(stack))
    /\ stack[Len(stack) - 1].method = "TryExceptStatNode"
    /\ Top.entry.numindents = stack[Len(stack) - 1].entry.numindents
    /\ Len(lines) > Len(Top.entry.lines)
    /\ lines[Len(lines)] = Indentation(Top.entry.numindents) \o <<"pass">>

\* the else clause of a while statement nested in a block has been written
C11_Witness ==
    /\ writer = "CodeWriter"
    /\ Returning
    /\ Len(stack) > 1
    /\ IsElseBody(Len(stack))
    /\ stack[Len(stack) - 1].method = "WhileStatNode"
    /\ stack[Len(stack) - 1].entry.numindents > 0
    /\ Len(lines) > Len(Top.entry.lines)

====
